---- MODULE Spec2Model ----
(***************************************************************************)
(* A model of the Disco handshake engine of src/disco/disco.go: the        *)
(* pattern table, Initialize, WriteMessage and ReadMessage of              *)
(* handshakeState, driven by two peers over a wire an adversary may        *)
(* change.                                                                 *)
(*                                                                         *)
(* The Strobe duplex object and the key agreement are used by the file but *)
(* defined elsewhere.  They are modelled symbolically: the duplex state is *)
(* the sequence of operations it has absorbed (an ideal, collision-free    *)
(* sponge), a ciphertext byte is the plaintext byte masked by a pad that   *)
(* names the state it was drawn from, a tag byte is a pad drawn from the   *)
(* state after the plaintext was absorbed, and a shared secret is the      *)
(* unordered pair of the two public keys it is computed from.              *)
(***************************************************************************)
EXTENDS Integers, Sequences, FiniteSets, TLC

\* ------------------------------------------------------------------ bounds

\* Length in bytes of a public key and of a shared secret (the curve's is
\* 32; the model keeps keys short).
dhLen == 2

\* Longest payload, and longest prior content of a caller's buffer.
MaxPayloadLen == 1

\* How many calls the peers may make on a HandshakeState that is Complete.
MaxExtraCalls == 1

\* ------------------------------------------------------- program constants

\* h.strobeState.SetMacLen(16)
MacLen == 16

\* ------------------------------------------------------------------- bytes

\* A byte: a value masked by the XOR of a set of pads.  A cleartext byte has
\* no pad.
Raw(v) == [v |-> v, pad |-> {}]

\* The pad a duplex in state `hist` yields at position i of an operation.
Atom(kind, hist, i) == [kind |-> kind, hist |-> hist, i |-> i]

\* XOR of a byte with a pad: masking twice with the same pad removes it.
XorPad(b, a) == [b EXCEPT !.pad = IF a \in @ THEN @ \ {a} ELSE @ \cup {a}]

\* []byte("initiator") and []byte("responder")
InitiatorLabel ==
    <<Raw(105), Raw(110), Raw(105), Raw(116), Raw(105), Raw(97), Raw(116), Raw(111), Raw(114)>>

ResponderLabel ==
    <<Raw(114), Raw(101), Raw(115), Raw(112), Raw(111), Raw(110), Raw(100), Raw(101), Raw(114)>>

\* A byte changed in flight.
Flip(b) == [b EXCEPT !.v = (@ + 1) % 256]

\* ------------------------------------------------------------ key agreement

\* The public key of private key n, dhLen bytes.  Private key 0 is the
\* all-zero key whose pair is the zero value of keyPair.
PubOf(n) == [i \in 1 .. dhLen |-> Raw(n)]

\* keyPair; the zero value is Empty ("keyPair.privateKey = 0 as Empty").
KeyPairOf(n) == [privateKey |-> n, publicKey |-> PubOf(n)]

Empty == KeyPairOf(0)

\* GenerateKeypair(): n is the private key the generator drew.
GenerateKeypair(n) == KeyPairOf(n)

\* dh(keyPair, publicKey): the secret shared by the pair's private key and
\* the owner of publicKey; dh(a, pub(b)) = dh(b, pub(a)).
dh(kp, publicKey) == {PubOf(kp.privateKey), publicKey}

\* ------------------------------------------------------------ Strobe object

\* One absorbed operation: its name (a meta operation is named apart), its
\* data, its associated data and its key material.
Item(op, data, ad, key) == [op |-> op, data |-> data, ad |-> ad, key |-> key]

Absorb(s, item) == [s EXCEPT !.hist = Append(@, item)]

\* strobe.InitStrobe(label): a fresh duplex whose buffers live at address buf.
InitStrobe(label, buf) ==
    [hist |-> <<Item("INIT " \o label, <<>>, <<>>, {})>>, macLen |-> 0, buf |-> buf]

SetMacLen(s, n) == [s EXCEPT !.macLen = n]

AD(s, meta, data) == Absorb(s, Item(IF meta THEN "meta AD" ELSE "AD", data, <<>>, {}))

\* Send_CLR and Recv_CLR absorb the same cleartext on the two sides.
Send_CLR(s, meta, data) == Absorb(s, Item(IF meta THEN "meta CLR" ELSE "CLR", data, <<>>, {}))

Recv_CLR(s, meta, data) == Absorb(s, Item(IF meta THEN "meta CLR" ELSE "CLR", data, <<>>, {}))

KEY(s, secret) == Absorb(s, Item("KEY", <<>>, <<>>, secret))

\* RATCHET(strobe.Strobe_R)
RATCHET(s) == Absorb(s, Item("RATCHET Strobe_R", <<>>, <<>>, {}))

\* Clone(): an independent copy, with buffers of its own at address buf.
Clone(s, buf) == [s EXCEPT !.buf = buf]

\* The tag a duplex in state hist sends.
MacOf(hist, n) == [i \in 1 .. n |-> XorPad(Raw(0), Atom("mac", hist, i))]

\* The duplex after encrypting or decrypting to plaintext pt with
\* associated data ad, and exchanging the tag.
AfterAEAD(s, pt, ad) == Append(s.hist, Item("AEAD", pt, ad, {}))

\* The data masked, or unmasked, by the pads of a duplex in state hist.
Crypt(hist, data) == [i \in 1 .. Len(data) |-> XorPad(data[i], Atom("enc", hist, i))]

\* Send_AEAD(plaintext, ad): the ciphertext and the tag; [s, out].
Sealed(s, ct, hist) == [s |-> [s EXCEPT !.hist = hist], out |-> ct \o MacOf(hist, s.macLen)]

Send_AEAD(s, plaintext, ad) == Sealed(s, Crypt(s.hist, plaintext), AfterAEAD(s, plaintext, ad))

\* Recv_AEAD(ciphertext, ad): [s, plaintext, ok]; a ciphertext shorter than
\* the tag is refused untouched.
Opened(s, pt, hist, tag) ==
    [s |-> [s EXCEPT !.hist = hist], plaintext |-> pt, ok |-> tag = MacOf(hist, s.macLen)]

Open(s, pt, ad, tag) == Opened(s, pt, AfterAEAD(s, pt, ad), tag)

Recv_AEAD(s, ciphertext, ad) ==
    IF Len(ciphertext) < s.macLen
    THEN [s |-> s, plaintext |-> <<>>, ok |-> FALSE]
    ELSE Open(s, Crypt(s.hist, SubSeq(ciphertext, 1, Len(ciphertext) - s.macLen)), ad,
              SubSeq(ciphertext, Len(ciphertext) - s.macLen + 1, Len(ciphertext)))

\* ------------------------------------------------------- handshake patterns

\* One message pattern, as strings.Split(p[2:], ",") and strings.Trim read
\* it: the direction marker and the tokens.
Step(dir, tokens) == [dir |-> dir, tokens |-> tokens]

\* var patterns: only "XX" is registered.
PatternNames == {"XX"}

patterns ==
    [name \in PatternNames |->
        [initiatorPreMessagePattern |-> "",
         responderPreMessagePattern |-> "",
         messagePattern |-> <<Step("->", <<"e">>),
                              Step("<-", <<"e", "ee", "s", "es">>),
                              Step("->", <<"s", "se">>)>>]]

\* strings.Contains(pre, "s") for the pre-message patterns of the table.
ContainsS(pre) == pre \in {"s", "e, s", "s, e"}

\* ----------------------------------------------------------- panics

PanicUnknownPattern == "the supplied handshakePattern does not exist"

PanicNoMoreWrite == "no more message pattern to write"

PanicNoMoreRead == "no more message pattern to read"

PanicNotAllowed == "pattern not allowed"

PanicBadMAC == "bad MAC"

PanicInvalidMAC == "invalid MAC"

PanicNilDeref == "invalid memory address or nil pointer dereference"

PanicSliceBounds == "slice bounds out of range"

NoErr == ""

\* ------------------------------------------------------------- Initialize

\* The zero value of strobe.Strobe and of handshakeState.
ZeroStrobe == [hist |-> <<>>, macLen |-> 0, buf |-> 0]

ZeroHandshake ==
    [strobeState |-> ZeroStrobe, s |-> Empty, e |-> Empty, rs |-> Empty, re |-> Empty,
     initiator |-> FALSE, messagePattern |-> <<>>]

\* A *keyPair argument: <<>> is nil, <<kp>> points to kp.
Nil == <<>>

Ptr(kp) == <<kp>>

\* Initialize up to "setting the role": the duplex with the prologue
\* absorbed, the key pairs given and the role.
InitState(handshakePattern, initiator, prologue, s, e, rs, re, buf) ==
    [strobeState    |-> AD(SetMacLen(InitStrobe("DISCOv0.1.0_" \o handshakePattern, buf),
                                     MacLen),
                           FALSE, prologue),
     s              |-> IF s # Nil THEN s[1] ELSE Empty,
     e              |-> IF e # Nil THEN e[1] ELSE Empty,
     rs             |-> IF rs # Nil THEN rs[1] ELSE Empty,
     re             |-> IF re # Nil THEN re[1] ELSE Empty,
     initiator      |-> initiator,
     messagePattern |-> <<>>]

\* One pre-message: when the pattern lists "s", the public key k points to
\* is absorbed; a nil k is dereferenced.  [h, err].
PreMessage(r, pre, k) ==
    IF r.err # NoErr \/ ~ContainsS(pre)
    THEN r
    ELSE IF k = Nil
    THEN [r EXCEPT !.err = PanicNilDeref]
    ELSE [r EXCEPT !.h.strobeState = AD(@, FALSE, k[1].publicKey)]

\* h.messagePattern = patterns[handshakePattern].messagePattern
SetSteps(r, pat) ==
    IF r.err # NoErr THEN r ELSE [r EXCEPT !.h.messagePattern = pat.messagePattern]

\* An Initialize that absorbs the local static key before the remote one.
InitializeKnown_LocalFirst(pat, handshakePattern, initiator, prologue, s, e, rs, re, buf) ==
    SetSteps(
        PreMessage(
            PreMessage([h   |-> InitState(handshakePattern, initiator, prologue,
                                          s, e, rs, re, buf),
                        err |-> NoErr],
                       pat.initiatorPreMessagePattern, s),
            pat.responderPreMessagePattern, rs),
        pat)

\* Initialize for a pattern of the table: the initiator's pre-message key is
\* absorbed before the responder's.
InitializeKnown(pat, handshakePattern, initiator, prologue, s, e, rs, re, buf) ==
    SetSteps(
        PreMessage(
            PreMessage([h   |-> InitState(handshakePattern, initiator, prologue,
                                          s, e, rs, re, buf),
                        err |-> NoErr],
                       pat.initiatorPreMessagePattern, IF initiator THEN s ELSE rs),
            pat.responderPreMessagePattern, IF initiator THEN rs ELSE s),
        pat)

\* An Initialize that falls back on "XX" when the name is not in the table.
Initialize_DefaultsToXX(handshakePattern, initiator, prologue, s, e, rs, re, buf) ==
    InitializeKnown(patterns["XX"], "XX", initiator, prologue, s, e, rs, re, buf)

\* Initialize(handshakePattern, initiator, prologue, s, e, rs, re); buf is
\* the address of the new duplex's buffers.  [h, err].
Initialize(handshakePattern, initiator, prologue, s, e, rs, re, buf) ==
    IF handshakePattern \notin DOMAIN patterns
    THEN [h |-> ZeroHandshake, err |-> PanicUnknownPattern]
    ELSE InitializeKnown(patterns[handshakePattern], handshakePattern, initiator, prologue,
                         s, e, rs, re, buf)

\* ----------------------------------------------------------- WriteMessage

\* h.strobeState.KEY(secret) within a token loop on m.
MixKey(m, secret) == [m EXCEPT !.h.strobeState = KEY(@, secret)]

\* A token "e" that sends the key generated without storing its pair.
WriteE_NoStore(m, kp) ==
    [m EXCEPT !.h.strobeState = Send_CLR(@, FALSE, kp.publicKey),
              !.messageBuffer = @ \o kp.publicKey]

\* Token "e" of WriteMessage, kp being the pair GenerateKeypair returned.
WriteE(m, kp) ==
    [m EXCEPT !.h.e = kp,
              !.h.strobeState = Send_CLR(@, FALSE, kp.publicKey),
              !.messageBuffer = @ \o kp.publicKey]

\* A token "s" that sends the encrypted key without its tag.
WriteS_NoTag(m, r) ==
    [m EXCEPT !.h.strobeState = r.s, !.messageBuffer = @ \o SubSeq(r.out, 1, dhLen)]

\* Token "s" of WriteMessage, r being what Send_AEAD returned.
WriteS(m, r) == [m EXCEPT !.h.strobeState = r.s, !.messageBuffer = @ \o r.out]

\* A token loop whose "es" and "se" do not look at the role.
WriteToken_NoMirror(m, pattern, ne) ==
    IF pattern = "ee"
    THEN MixKey(m, dh(m.h.e, m.h.re.publicKey))
    ELSE IF pattern = "es"
    THEN MixKey(m, dh(m.h.e, m.h.rs.publicKey))
    ELSE IF pattern = "se"
    THEN MixKey(m, dh(m.h.s, m.h.re.publicKey))
    ELSE IF pattern = "ss"
    THEN MixKey(m, dh(m.h.s, m.h.rs.publicKey))
    ELSE [m EXCEPT !.err = PanicNotAllowed]

\* One turn of the token loop of WriteMessage on m = [h, messageBuffer, err];
\* ne is the private key GenerateKeypair draws.
WriteToken(m, pattern, ne) ==
    IF pattern = "e"
    THEN WriteE(m, GenerateKeypair(ne))
    ELSE IF pattern = "s"
    THEN WriteS(m, Send_AEAD(m.h.strobeState, m.h.s.publicKey, <<>>))
    ELSE IF pattern = "ee"
    THEN MixKey(m, dh(m.h.e, m.h.re.publicKey))
    ELSE IF pattern = "es"
    THEN IF m.h.initiator
         THEN MixKey(m, dh(m.h.e, m.h.rs.publicKey))
         ELSE MixKey(m, dh(m.h.s, m.h.re.publicKey))
    ELSE IF pattern = "se"
    THEN IF m.h.initiator
         THEN MixKey(m, dh(m.h.s, m.h.re.publicKey))
         ELSE MixKey(m, dh(m.h.e, m.h.rs.publicKey))
    ELSE IF pattern = "ss"
    THEN MixKey(m, dh(m.h.s, m.h.rs.publicKey))
    ELSE [m EXCEPT !.err = PanicNotAllowed]

\* A token loop that runs through the tokens from the last to the first.
RECURSIVE WriteTokens_Reversed(_, _, _)
WriteTokens_Reversed(m, tokens, ne) ==
    IF tokens = <<>> \/ m.err # NoErr
    THEN m
    ELSE WriteTokens_Reversed(WriteToken(m, tokens[Len(tokens)], ne),
                              SubSeq(tokens, 1, Len(tokens) - 1), ne)

\* for _, pattern := range patterns: a panic ends the loop.
RECURSIVE WriteTokens(_, _, _)
WriteTokens(m, tokens, ne) ==
    IF tokens = <<>> \/ m.err # NoErr
    THEN m
    ELSE WriteTokens(WriteToken(m, Head(tokens), ne), Tail(tokens), ne)

\* A split that hands the two labels out the other way round.
WriteSplit_Swapped(strobeState, buf) ==
    <<RATCHET(AD(Clone(strobeState, buf), TRUE, ResponderLabel)),
      RATCHET(AD(strobeState, TRUE, InitiatorLabel))>>

\* The split at the end of WriteMessage: <<c1, c2>>; c1 is a clone with
\* buffers at buf, c2 a copy of the struct h.strobeState.
WriteSplit(strobeState, buf) ==
    <<RATCHET(AD(Clone(strobeState, buf), TRUE, InitiatorLabel)),
      RATCHET(AD(strobeState, TRUE, ResponderLabel))>>

\* An end of WriteMessage that forgets to remove the pattern it processed.
WriteDone_KeepsStep(h, messageBuffer, buf) ==
    IF Len(h.messagePattern) = 1
    THEN [h             |-> [h EXCEPT !.messagePattern = <<>>],
          messageBuffer |-> messageBuffer,
          c             |-> WriteSplit(h.strobeState, buf),
          err           |-> NoErr]
    ELSE [h             |-> h,
          messageBuffer |-> messageBuffer,
          c             |-> <<>>,
          err           |-> NoErr]

\* The end of WriteMessage: the pattern is removed and, when it was the
\* last, the two session states are returned.
WriteDone(h, messageBuffer, buf) ==
    IF Len(h.messagePattern) = 1
    THEN [h             |-> [h EXCEPT !.messagePattern = <<>>],
          messageBuffer |-> messageBuffer,
          c             |-> WriteSplit(h.strobeState, buf),
          err           |-> NoErr]
    ELSE [h             |-> [h EXCEPT !.messagePattern = Tail(@)],
          messageBuffer |-> messageBuffer,
          c             |-> <<>>,
          err           |-> NoErr]

\* Appends EncryptAndHash(payload) to the buffer, r being what Send_AEAD
\* returned.
WritePayload(m, r, buf) ==
    WriteDone([m.h EXCEPT !.strobeState = r.s], m.messageBuffer \o r.out, buf)

\* WriteMessage after the token loop left m.
WriteAfterTokens(m, payload, buf) ==
    IF m.err # NoErr
    THEN [h |-> m.h, messageBuffer |-> m.messageBuffer, c |-> <<>>, err |-> m.err]
    ELSE WritePayload(m, Send_AEAD(m.h.strobeState, payload, <<>>), buf)

\* A WriteMessage that refuses a pattern whose direction marker does not
\* name the local role.
WriteMessage_ChecksTurn(h, payload, messageBuffer, ne, buf) ==
    IF Len(h.messagePattern) = 0
    THEN [h |-> h, messageBuffer |-> messageBuffer, c |-> <<>>, err |-> PanicNoMoreWrite]
    ELSE IF (h.messagePattern[1].dir = "->") # h.initiator
    THEN [h |-> h, messageBuffer |-> messageBuffer, c |-> <<>>, err |-> "out of turn"]
    ELSE WriteAfterTokens(
             WriteTokens([h |-> h, messageBuffer |-> messageBuffer, err |-> NoErr],
                         h.messagePattern[1].tokens, ne),
             payload, buf)

\* A WriteMessage that finds out that no pattern is left only after it has
\* encrypted the payload.
WriteLate(h, r, messageBuffer) ==
    [h |-> [h EXCEPT !.strobeState = r.s], messageBuffer |-> messageBuffer \o r.out,
     c |-> <<>>, err |-> PanicNoMoreWrite]

WriteMessage_LateCheck(h, payload, messageBuffer, ne, buf) ==
    IF Len(h.messagePattern) = 0
    THEN WriteLate(h, Send_AEAD(h.strobeState, payload, <<>>), messageBuffer)
    ELSE WriteAfterTokens(
             WriteTokens([h |-> h, messageBuffer |-> messageBuffer, err |-> NoErr],
                         h.messagePattern[1].tokens, ne),
             payload, buf)

\* (h *handshakeState) WriteMessage(payload, messageBuffer) (c1, c2).
\* [h, messageBuffer, c, err]: c is <<c1, c2>> when the call returns the two
\* session states and <<>> when it returns none; buf is the address of the
\* buffers Clone allocates.
WriteMessage(h, payload, messageBuffer, ne, buf) ==
    IF Len(h.messagePattern) = 0
    THEN [h |-> h, messageBuffer |-> messageBuffer, c |-> <<>>, err |-> PanicNoMoreWrite]
    ELSE WriteAfterTokens(
             WriteTokens([h |-> h, messageBuffer |-> messageBuffer, err |-> NoErr],
                         h.messagePattern[1].tokens, ne),
             payload, buf)

\* ------------------------------------------------------------ ReadMessage

\* copy(dst[:], src) into a dhLen-byte array: the first bytes of src replace
\* those of dst.
CopyKey(dst, src) ==
    [i \in 1 .. dhLen |-> IF i <= Len(src) THEN src[i] ELSE dst[i]]

\* A token "e" that absorbs the key received without storing it.
ReadE_NoStore(m, publicKey) ==
    [m EXCEPT !.h.strobeState = Recv_CLR(@, FALSE, publicKey),
              !.offset = @ + dhLen]

\* Token "e" of ReadMessage, publicKey being h.re.publicKey after the copy.
ReadE(m, publicKey) ==
    [m EXCEPT !.h.re.publicKey = publicKey,
              !.h.strobeState = Recv_CLR(@, FALSE, publicKey),
              !.offset = @ + dhLen]

\* Token "s" of ReadMessage, r being what Recv_AEAD returned.
ReadS(m, r) ==
    IF ~r.ok
    THEN [m EXCEPT !.h.strobeState = r.s, !.err = PanicBadMAC]
    ELSE [m EXCEPT !.h.strobeState = r.s,
                   !.h.rs.publicKey = CopyKey(@, r.plaintext),
                   !.offset = @ + dhLen + 16]

\* A []byte argument: the bytes of its backing array from its first on, and
\* its length; its capacity is the number of these bytes.
Slice(bytes, len) == [bytes |-> bytes, len |-> len]

Cap(message) == Len(message.bytes)

\* One turn of the token loop of ReadMessage on m = [h, offset, err].  A
\* slice expression message[low:high] panics when high exceeds the capacity,
\* not the length.
ReadToken(m, pattern, message) ==
    IF pattern = "e"
    THEN IF m.offset + dhLen > Cap(message)
         THEN [m EXCEPT !.err = PanicSliceBounds]
         ELSE ReadE(m, CopyKey(m.h.re.publicKey,
                               SubSeq(message.bytes, m.offset + 1, m.offset + dhLen)))
    ELSE IF pattern = "s"
    THEN IF m.offset + dhLen + 16 > Cap(message)
         THEN [m EXCEPT !.err = PanicSliceBounds]
         ELSE ReadS(m, Recv_AEAD(m.h.strobeState,
                                 SubSeq(message.bytes, m.offset + 1, m.offset + dhLen + 16),
                                 <<>>))
    ELSE IF pattern = "ee"
    THEN MixKey(m, dh(m.h.e, m.h.re.publicKey))
    ELSE IF pattern = "es"
    THEN IF m.h.initiator
         THEN MixKey(m, dh(m.h.e, m.h.rs.publicKey))
         ELSE MixKey(m, dh(m.h.s, m.h.re.publicKey))
    ELSE IF pattern = "se"
    THEN IF m.h.initiator
         THEN MixKey(m, dh(m.h.s, m.h.re.publicKey))
         ELSE MixKey(m, dh(m.h.e, m.h.rs.publicKey))
    ELSE IF pattern = "ss"
    THEN MixKey(m, dh(m.h.s, m.h.rs.publicKey))
    ELSE [m EXCEPT !.err = PanicNotAllowed]

RECURSIVE ReadTokens(_, _, _)
ReadTokens(m, tokens, message) ==
    IF tokens = <<>> \/ m.err # NoErr
    THEN m
    ELSE ReadTokens(ReadToken(m, Head(tokens), message), Tail(tokens), message)

\* Whether a slot holds a key: a local pair is Empty when its private key
\* is 0, and of a remote pair only the public key is ever set.
Present(kp) == kp.privateKey # 0

Known(kp) == kp.publicKey # Empty.publicKey

\* Whether the slots a token reads hold a key when the token is executed on
\* h.  The tokens "e" of both functions and "s" of ReadMessage read none.
Finds(h, pattern, writing) ==
    IF pattern = "s" THEN writing => Present(h.s)
    ELSE IF pattern = "ee" THEN Present(h.e) /\ Known(h.re)
    ELSE IF (pattern = "es" /\ h.initiator) \/ (pattern = "se" /\ ~h.initiator)
    THEN Present(h.e) /\ Known(h.rs)
    ELSE IF pattern \in {"es", "se"} THEN Present(h.s) /\ Known(h.re)
    ELSE IF pattern = "ss" THEN Present(h.s) /\ Known(h.rs)
    ELSE TRUE

\* Whether every token the loop of WriteMessage, or of ReadMessage, executes
\* from m on finds the slots it reads.
RECURSIVE WriteFinds(_, _, _)
WriteFinds(m, tokens, ne) ==
    \/ tokens = <<>>
    \/ m.err # NoErr
    \/ /\ Finds(m.h, Head(tokens), TRUE)
       /\ WriteFinds(WriteToken(m, Head(tokens), ne), Tail(tokens), ne)

RECURSIVE ReadFinds(_, _, _)
ReadFinds(m, tokens, message) ==
    \/ tokens = <<>>
    \/ m.err # NoErr
    \/ /\ Finds(m.h, Head(tokens), FALSE)
       /\ ReadFinds(ReadToken(m, Head(tokens), message), Tail(tokens), message)

\* A split that hands the two labels out the other way round.
ReadSplit_Swapped(strobeState, buf) ==
    <<RATCHET(AD(Clone(strobeState, buf), TRUE, ResponderLabel)),
      RATCHET(AD(strobeState, TRUE, InitiatorLabel))>>

\* The split at the end of ReadMessage: <<c1, c2>>.
ReadSplit(strobeState, buf) ==
    <<RATCHET(AD(Clone(strobeState, buf), TRUE, InitiatorLabel)),
      RATCHET(AD(strobeState, TRUE, ResponderLabel))>>

\* An end of ReadMessage that forgets to remove the pattern it processed.
ReadDone_KeepsStep(h, payloadBuffer, buf) ==
    IF Len(h.messagePattern) = 1
    THEN [h             |-> [h EXCEPT !.messagePattern = <<>>],
          payloadBuffer |-> payloadBuffer,
          c             |-> ReadSplit(h.strobeState, buf),
          err           |-> NoErr]
    ELSE [h             |-> h,
          payloadBuffer |-> payloadBuffer,
          c             |-> <<>>,
          err           |-> NoErr]

\* An end of ReadMessage that returns session states after every step.
ReadDone_AlwaysSplits(h, payloadBuffer, buf) ==
    [h             |-> [h EXCEPT !.messagePattern = Tail(@)],
     payloadBuffer |-> payloadBuffer,
     c             |-> ReadSplit(h.strobeState, buf),
     err           |-> NoErr]

\* The end of ReadMessage: the pattern is removed and, when it was the last,
\* the two session states are returned.
ReadDone(h, payloadBuffer, buf) ==
    IF Len(h.messagePattern) = 1
    THEN [h             |-> [h EXCEPT !.messagePattern = <<>>],
          payloadBuffer |-> payloadBuffer,
          c             |-> ReadSplit(h.strobeState, buf),
          err           |-> NoErr]
    ELSE [h             |-> [h EXCEPT !.messagePattern = Tail(@)],
          payloadBuffer |-> payloadBuffer,
          c             |-> <<>>,
          err           |-> NoErr]

\* A payload step that removes the pattern although the tag check failed.
ReadPayload_DropsStep(m, r, payloadBuffer, buf) ==
    IF ~r.ok
    THEN [h |-> [m.h EXCEPT !.strobeState = r.s, !.messagePattern = Tail(@)],
          payloadBuffer |-> payloadBuffer, c |-> <<>>, err |-> PanicInvalidMAC]
    ELSE ReadDone([m.h EXCEPT !.strobeState = r.s], payloadBuffer \o r.plaintext, buf)

\* A payload step that does not look at the tag check.
ReadPayload_Unchecked(m, r, payloadBuffer, buf) ==
    ReadDone([m.h EXCEPT !.strobeState = r.s], payloadBuffer \o r.plaintext, buf)

\* A payload step that replaces the caller's buffer by the payload.
ReadPayload_Overwrite(m, r, payloadBuffer, buf) ==
    IF ~r.ok
    THEN [h |-> [m.h EXCEPT !.strobeState = r.s], payloadBuffer |-> payloadBuffer,
          c |-> <<>>, err |-> PanicInvalidMAC]
    ELSE ReadDone([m.h EXCEPT !.strobeState = r.s], r.plaintext, buf)

\* Appends decrypted payload to the buffer, r being what Recv_AEAD returned.
ReadPayload(m, r, payloadBuffer, buf) ==
    IF ~r.ok
    THEN [h |-> [m.h EXCEPT !.strobeState = r.s], payloadBuffer |-> payloadBuffer,
          c |-> <<>>, err |-> PanicInvalidMAC]
    ELSE ReadDone([m.h EXCEPT !.strobeState = r.s], payloadBuffer \o r.plaintext, buf)

\* ReadMessage after the token loop left m; message[offset:] panics when
\* the offset exceeds the length.
ReadAfterTokens(m, message, payloadBuffer, buf) ==
    IF m.err # NoErr
    THEN [h |-> m.h, payloadBuffer |-> payloadBuffer, c |-> <<>>, err |-> m.err]
    ELSE IF m.offset > message.len
    THEN [h |-> m.h, payloadBuffer |-> payloadBuffer, c |-> <<>>, err |-> PanicSliceBounds]
    ELSE ReadPayload(m,
                     Recv_AEAD(m.h.strobeState,
                               SubSeq(message.bytes, m.offset + 1, message.len), <<>>),
                     payloadBuffer, buf)

\* (h *handshakeState) ReadMessage(message, payloadBuffer) (c1, c2).
\* [h, payloadBuffer, c, err].
ReadMessage(h, message, payloadBuffer, buf) ==
    IF Len(h.messagePattern) = 0
    THEN [h |-> h, payloadBuffer |-> payloadBuffer, c |-> <<>>, err |-> PanicNoMoreRead]
    ELSE ReadAfterTokens(
             ReadTokens([h |-> h, offset |-> 0, err |-> NoErr],
                        h.messagePattern[1].tokens, message),
             message, payloadBuffer, buf)

\* ------------------------------------------------------ the two peers

VARIABLES
    hs,       \* hs[p]: the handshakeState of peer p
    pc,       \* pc[p]: "new" before Initialize, "ready" after, "failed" after a panic
    cfg,      \* cfg[p]: the arguments peer p gave Initialize
    wire,     \* the message in flight
    sess,     \* sess[p]: the session states a call of p returned, <<>> before
    storage,  \* storage[a]: the operation last written to the duplex buffers at address a
    last,     \* the last call: who made it, the handshake state before it, how it
              \* ended and whether it returned session states; the caller's buffer
              \* before it, whether that content was kept as a prefix, how many
              \* bytes were added and, for ReadMessage, which; the payload written
              \* or the one of the message read; the position of the byte of the
              \* message read that was changed in flight, 0 when none was; the
              \* length and the capacity of the message read; whether every
              \* token executed found a key in each slot it read
    log,      \* the WriteMessage and ReadMessage calls made so far, in order
    extra     \* how many calls were made on a Complete HandshakeState

vars == <<hs, pc, cfg, wire, sess, storage, last, log, extra>>

Peers == {"I", "R"}

Peer(p) == IF p = "I" THEN "R" ELSE "I"

\* The role flag each peer passes to Initialize.
Role(p) == p = "I"

\* The long-term key pair of each peer, and what the other side knows of it.
StaticOf(p) == KeyPairOf(IF p = "I" THEN 1 ELSE 2)

PublicOf(kp) == [privateKey |-> 0, publicKey |-> kp.publicKey]

\* The private key GenerateKeypair draws for each peer.
EphKeys(p) == IF p = "I" THEN {3} ELSE {4}

Prologues == {<<>>, <<Raw(1)>>}

\* The prologues each peer may give: the responder's may differ from the
\* initiator's.
ProloguesOf(p) == IF p = "I" THEN {<<Raw(1)>>} ELSE Prologues

\* Payloads, and prior contents of a caller's buffer.
Payloads == {[i \in 1 .. n |-> Raw(1)] : n \in 0 .. MaxPayloadLen}

Buffers == {[i \in 1 .. n |-> Raw(2)] : n \in 0 .. MaxPayloadLen}

\* Where the buffers of p's handshake duplex and of its clone live.
HsAddr(p) == IF p = "I" THEN 1 ELSE 2

CloneAddr(p) == IF p = "I" THEN 3 ELSE 4

Addrs == 0 .. 4

NoItem == Item("", <<>>, <<>>, {})

NoWire == [full |-> FALSE, from |-> "I", msg |-> <<>>, payload |-> <<>>]

NoArgs ==
    [handshakePattern |-> "", initiator |-> FALSE, prologue |-> <<>>,
     s |-> Nil, e |-> Nil, rs |-> Nil, re |-> Nil]

NoCall ==
    [op |-> "none", who |-> "I", pre |-> ZeroHandshake, err |-> NoErr, returned |-> FALSE,
     bufBefore |-> <<>>, kept |-> TRUE, added |-> <<>>, addedLen |-> 0,
     payload |-> <<>>, changed |-> 0, len |-> 0, cap |-> 0, found |-> TRUE]

Init ==
    /\ hs = [p \in Peers |-> ZeroHandshake]
    /\ pc = [p \in Peers |-> "new"]
    /\ cfg = [p \in Peers |-> NoArgs]
    /\ wire = NoWire
    /\ sess = [p \in Peers |-> <<>>]
    /\ storage = [a \in Addrs |-> NoItem]
    /\ last = NoCall
    /\ log = <<>>
    /\ extra = 0

IsPrefix(a, b) == Len(a) <= Len(b) /\ SubSeq(b, 1, Len(a)) = a

\* What a call leaves in the log; clean: the call was given what the other
\* peer sent, unchanged; returned: it returned the two session states.
Entry(op, who, err, clean, returned) ==
    [op |-> op, who |-> who, err |-> err, clean |-> clean, returned |-> returned]

\* The operation a duplex absorbed last.
LastOp(s) == IF s.hist = <<>> THEN NoItem ELSE s.hist[Len(s.hist)]

\* Every duplex operation writes the buffers of the object it is applied
\* to: after a call that left handshake state h and returned c, the buffers
\* of h.strobeState hold what was last written through them, and so do the
\* clone's.
Stored(st, h, c) ==
    IF c = <<>>
    THEN [st EXCEPT ![h.strobeState.buf] = LastOp(h.strobeState)]
    ELSE [st EXCEPT ![c[1].buf] = LastOp(c[1]), ![c[2].buf] = LastOp(c[2])]

\* Peer p calls Initialize.
InitializeCall(p, handshakePattern, initiator, prologue, s, e, rs, re) ==
    /\ pc[p] = "new"
    /\ \E r \in {Initialize(handshakePattern, initiator, prologue, s, e, rs, re, HsAddr(p))} :
           /\ hs' = [hs EXCEPT ![p] = r.h]
           /\ pc' = [pc EXCEPT ![p] = IF r.err = NoErr THEN "ready" ELSE "failed"]
           /\ storage' = IF r.err = NoErr THEN Stored(storage, r.h, <<>>) ELSE storage
           /\ last' = [NoCall EXCEPT !.op = "Initialize", !.who = p, !.pre = hs[p],
                                     !.err = r.err]
    /\ cfg' = [cfg EXCEPT ![p] = [handshakePattern |-> handshakePattern,
                                  initiator |-> initiator, prologue |-> prologue,
                                  s |-> s, e |-> e, rs |-> rs, re |-> re]]
    /\ UNCHANGED <<wire, sess, log, extra>>

\* A peer initialises for a handshake with the other: its own static key
\* pair or none, no ephemeral and no remote keys.
DoInitialize ==
    \E p \in Peers, name \in {"XX", "ZZ"} :
        \E prologue \in ProloguesOf(p), s \in {Nil, Ptr(StaticOf(p))} :
            InitializeCall(p, name, Role(p), prologue, s, Nil, Nil, Nil)

\* A peer calls once both are initialised and while no call has panicked (a
\* panic aborts the handshake); a call on a Complete HandshakeState is one
\* of the few the peer may make.
MayCall(p) ==
    /\ \A q \in Peers : pc[q] = "ready"
    /\ Len(hs[p].messagePattern) = 0 => extra < MaxExtraCalls

Called(p) ==
    extra' = IF Len(hs[p].messagePattern) = 0 THEN extra + 1 ELSE extra

\* Peer p calls WriteMessage(payload, &messageBuffer) and sends what the
\* call appended.
DoWriteMessage ==
    \E p \in Peers, payload \in Payloads, messageBuffer \in Buffers :
      \E ne \in EphKeys(p) :
        /\ MayCall(p)
        /\ ~wire.full
        /\ \E r \in {WriteMessage(hs[p], payload, messageBuffer, ne, CloneAddr(p))} :
           \E out \in {SubSeq(r.messageBuffer, Len(messageBuffer) + 1, Len(r.messageBuffer))} :
               /\ hs' = [hs EXCEPT ![p] = r.h]
               /\ pc' = [pc EXCEPT ![p] =
                            IF r.err \in {NoErr, PanicNoMoreWrite} THEN "ready" ELSE "failed"]
               /\ wire' = IF r.err = NoErr
                          THEN [full |-> TRUE, from |-> p, msg |-> out, payload |-> payload]
                          ELSE wire
               /\ sess' = [sess EXCEPT ![p] = IF r.c # <<>> THEN r.c ELSE @]
               /\ storage' = IF r.err = PanicNoMoreWrite THEN storage
                             ELSE Stored(storage, r.h, r.c)
               /\ last' = [NoCall EXCEPT !.op = "WriteMessage", !.who = p, !.pre = hs[p],
                                         !.err = r.err, !.returned = r.c # <<>>,
                                         !.bufBefore = messageBuffer,
                                         !.kept = IsPrefix(messageBuffer, r.messageBuffer),
                                         !.addedLen = Len(out), !.payload = payload,
                                         !.found =
                                             \/ hs[p].messagePattern = <<>>
                                             \/ WriteFinds([h |-> hs[p],
                                                            messageBuffer |-> messageBuffer,
                                                            err |-> NoErr],
                                                           hs[p].messagePattern[1].tokens, ne)]
               /\ log' = Append(log, Entry("WriteMessage", p, r.err, TRUE, r.c # <<>>))
        /\ Called(p)
        /\ UNCHANGED cfg

\* What may arrive of a message: the message, or the message with one byte
\* changed by the adversary.
Changed(msg, i) == [msg EXCEPT ![i] = Flip(@)]

Delivered(msg, i) == IF i = 0 THEN msg ELSE Changed(msg, i)

\* ... or only its first bytes.  The lengths a message is cut to: nothing,
\* one byte less than a key, a key, and one byte less than what the tokens
\* "s" and "e, s" need.
Cuts(msg) ==
    {k \in {0, dhLen - 1, dhLen, dhLen + MacLen - 1, 2 * dhLen + MacLen - 1} : k < Len(msg)}

\* What the caller's array holds behind the bytes that arrived: nothing (the
\* slice is full), the rest of the message, or zero bytes.
Slacks == {"none", "rest", "zero"}

Behind(msg, k, slack) ==
    IF slack = "none" THEN <<>>
    ELSE IF slack = "rest" THEN SubSeq(msg, k + 1, Len(msg))
    ELSE [i \in 1 .. Len(msg) - k |-> Raw(0)]

\* A delivery: the position of the byte changed, how many bytes arrive, and
\* what lies behind them.
Deliveries(msg) ==
    {[changed |-> i, len |-> Len(msg), slack |-> "none"] : i \in 0 .. Len(msg)}
        \cup {[changed |-> 0, len |-> k, slack |-> sl] : k \in Cuts(msg), sl \in Slacks}

\* The message argument of ReadMessage for delivery d.
Arrived(msg, d) ==
    Slice(SubSeq(Delivered(msg, d.changed), 1, d.len) \o Behind(msg, d.len, d.slack), d.len)

\* The other peer's message arrives, and peer p calls
\* ReadMessage(message, &payloadBuffer) on it.
DoReadMessage ==
    \E p \in Peers, payloadBuffer \in Buffers, d \in Deliveries(wire.msg) :
        /\ MayCall(p)
        /\ wire.full
        /\ wire.from = Peer(p)
        /\ \E message \in {Arrived(wire.msg, d)} :
           \E r \in {ReadMessage(hs[p], message, payloadBuffer, CloneAddr(p))} :
               /\ hs' = [hs EXCEPT ![p] = r.h]
               /\ pc' = [pc EXCEPT ![p] =
                            IF r.err \in {NoErr, PanicNoMoreRead} THEN "ready" ELSE "failed"]
               /\ sess' = [sess EXCEPT ![p] = IF r.c # <<>> THEN r.c ELSE @]
               /\ storage' = IF r.err = PanicNoMoreRead THEN storage
                             ELSE Stored(storage, r.h, r.c)
               /\ last' = [NoCall EXCEPT !.op = "ReadMessage", !.who = p, !.pre = hs[p],
                                         !.err = r.err, !.returned = r.c # <<>>,
                                         !.bufBefore = payloadBuffer,
                                         !.kept = IsPrefix(payloadBuffer, r.payloadBuffer),
                                         !.added = SubSeq(r.payloadBuffer,
                                                          Len(payloadBuffer) + 1,
                                                          Len(r.payloadBuffer)),
                                         !.addedLen = Len(r.payloadBuffer) - Len(payloadBuffer),
                                         !.payload = wire.payload, !.changed = d.changed,
                                         !.len = message.len, !.cap = Cap(message),
                                         !.found =
                                             \/ hs[p].messagePattern = <<>>
                                             \/ ReadFinds([h |-> hs[p], offset |-> 0,
                                                           err |-> NoErr],
                                                          hs[p].messagePattern[1].tokens,
                                                          message)]
               /\ log' = Append(log, Entry("ReadMessage", p, r.err,
                                           d.changed = 0 /\ d.len = Len(wire.msg),
                                           r.c # <<>>))
        /\ wire' = NoWire
        /\ Called(p)
        /\ UNCHANGED cfg

Next ==
    \/ DoInitialize
    \/ DoWriteMessage
    \/ DoReadMessage

Spec == Init /\ [][Next]_vars

\* Initialize alone, on every input: either role, any prologue, and every
\* combination of key pairs given and not given.
DoInitializeAny ==
    \E p \in Peers, name \in {"XX", "ZZ"}, initiator \in BOOLEAN, prologue \in Prologues :
        \E s \in {Nil, Ptr(StaticOf(p))}, e \in {Nil, Ptr(KeyPairOf(3))},
           rs \in {Nil, Ptr(PublicOf(StaticOf(Peer(p))))},
           re \in {Nil, Ptr(PublicOf(KeyPairOf(4)))} :
            InitializeCall(p, name, initiator, prologue, s, e, rs, re)

NextInit == DoInitializeAny

SpecInit == Init /\ [][NextInit]_vars

\* Patterns the table may come to register, with static keys known before
\* the handshake: those of the initiator ("KN"), of the responder ("NK"),
\* of both ("KK").
PreShared ==
    [name \in {"KN", "NK", "KK"} |->
        [initiatorPreMessagePattern |-> IF name \in {"KN", "KK"} THEN "s" ELSE "",
         responderPreMessagePattern |-> IF name \in {"NK", "KK"} THEN "s" ELSE "",
         messagePattern |->
             IF name = "KN"
             THEN <<Step("->", <<"e">>), Step("<-", <<"e", "ee", "se">>)>>
             ELSE IF name = "NK"
             THEN <<Step("->", <<"e", "es">>), Step("<-", <<"e", "ee">>)>>
             ELSE <<Step("->", <<"e", "es", "ss">>), Step("<-", <<"e", "ee", "se">>)>>]]

\* Peer p calls Initialize for a pattern registered with pre-messages.
InitializePreShared(p, handshakePattern, initiator, prologue, s, e, rs, re) ==
    /\ pc[p] = "new"
    /\ \E r \in {InitializeKnown(PreShared[handshakePattern], handshakePattern, initiator,
                                  prologue, s, e, rs, re, HsAddr(p))} :
           /\ hs' = [hs EXCEPT ![p] = r.h]
           /\ pc' = [pc EXCEPT ![p] = IF r.err = NoErr THEN "ready" ELSE "failed"]
           /\ storage' = IF r.err = NoErr THEN Stored(storage, r.h, <<>>) ELSE storage
           /\ last' = [NoCall EXCEPT !.op = "Initialize", !.who = p, !.pre = hs[p],
                                     !.err = r.err]
    /\ cfg' = [cfg EXCEPT ![p] = [handshakePattern |-> handshakePattern,
                                  initiator |-> initiator, prologue |-> prologue,
                                  s |-> s, e |-> e, rs |-> rs, re |-> re]]
    /\ UNCHANGED <<wire, sess, log, extra>>

\* Each peer gives its own static key pair or none, and the other's static
\* public key or none.
DoInitializePreShared ==
    \E p \in Peers, name \in DOMAIN PreShared, prologue \in Prologues :
        \E s \in {Nil, Ptr(StaticOf(p))}, rs \in {Nil, Ptr(PublicOf(StaticOf(Peer(p))))} :
            InitializePreShared(p, name, Role(p), prologue, s, Nil, rs, Nil)

NextPre == DoInitializePreShared

SpecPre == Init /\ [][NextPre]_vars

\* The DH tokens alone, on every combination of key slots: each peer is
\* initialised with any of its two key pairs and of the other's two public
\* keys, and then one side runs the WriteMessage turn of a DH token and the
\* other the ReadMessage turn.
DHTokens == {"ee", "es", "se", "ss"}

EphemeralOf(p) == KeyPairOf(CHOOSE n \in EphKeys(p) : TRUE)

DoInitializeKeyed ==
    \E p \in Peers :
        \E s \in {Nil, Ptr(StaticOf(p))}, e \in {Nil, Ptr(EphemeralOf(p))},
           rs \in {Nil, Ptr(PublicOf(StaticOf(Peer(p))))},
           re \in {Nil, Ptr(PublicOf(EphemeralOf(Peer(p))))} :
            InitializeCall(p, "XX", Role(p), <<>>, s, e, rs, re)

DoToken ==
    \E pattern \in DHTokens, p \in Peers :
        /\ \A q \in Peers : pc[q] = "ready"
        /\ last.op = "Initialize"
        /\ \E w \in {WriteToken([h |-> hs[p], messageBuffer |-> <<>>, err |-> NoErr],
                                 pattern, 0)} :
           \E r \in {ReadToken([h |-> hs[Peer(p)], offset |-> 0, err |-> NoErr],
                                pattern, Slice(<<>>, 0))} :
               /\ hs' = [q \in Peers |-> IF q = p THEN w.h ELSE r.h]
               /\ storage' = Stored(Stored(storage, w.h, <<>>), r.h, <<>>)
               /\ last' = [NoCall EXCEPT !.op = pattern, !.who = p, !.pre = hs[p]]
        /\ UNCHANGED <<pc, cfg, wire, sess, log, extra>>

NextDH == DoInitializeKeyed \/ DoToken

SpecDH == Init /\ [][NextDH]_vars

\* ------------------------------------------------------ the error taxonomy

\* The failure each panic of the code stands for.
ProtocolAlreadyComplete(err) == err \in {PanicNoMoreWrite, PanicNoMoreRead}

AuthenticationFailure(err) == err \in {PanicBadMAC, PanicInvalidMAC}

UnknownHandshakePattern(err) == err = PanicUnknownPattern

\* ------------------------------------------------------ the honest exchange

\* The steps of "XX", and the calls of an exchange of them.
Steps == patterns["XX"].messagePattern

NCalls == 2 * Len(Steps)

\* Call k of an exchange in order: step (k+1)/2 is written by the side its
\* direction marker names and then read by the other.
StepOf(k) == (k + 1) \div 2

Writer(step) == IF step.dir = "->" THEN "I" ELSE "R"

ExpectedOp(k) == IF k % 2 = 1 THEN "WriteMessage" ELSE "ReadMessage"

ExpectedWho(k) == IF k % 2 = 1 THEN Writer(Steps[StepOf(k)]) ELSE Peer(Writer(Steps[StepOf(k)]))

\* Both peers initialised for "XX" with the same prologue.
SamePrologue ==
    /\ \A p \in Peers : pc[p] # "new" /\ cfg[p].handshakePattern = "XX"
    /\ cfg["I"].prologue = cfg["R"].prologue

\* ... and each with its own static key pair.
HonestSetup == SamePrologue /\ \A p \in Peers : cfg[p].s = Ptr(StaticOf(p))

\* Call k was made in order, on the unchanged message where it is a read.
InOrder(k) ==
    /\ k <= NCalls
    /\ log[k].op = ExpectedOp(k)
    /\ log[k].who = ExpectedWho(k)
    /\ log[k].clean

\* The first n calls were those of an honest exchange.
HonestUpTo(n) == n <= Len(log) /\ \A k \in 1 .. n : InOrder(k)

\* The last call was a WriteMessage or a ReadMessage.
LastIsCall == last.op \in {"WriteMessage", "ReadMessage"}

\* What a duplex object holds, wherever its buffers live.
Content(s) == [hist |-> s.hist, macLen |-> s.macLen]

\* -------------------------------------------------------------- properties

\* C1: Convergence.  When an initiator and a responder, both initialised
\* for "XX" with their own static key pair and the same prologue, exchange
\* the three messages unmodified and in order, the initiator's final
\* WriteMessage and the responder's final ReadMessage both return session
\* states, and they return the same pair: c1 = c1 and c2 = c2.
C1_Convergence ==
    (HonestSetup /\ HonestUpTo(NCalls)) =>
        /\ log[NCalls - 1].returned /\ log[NCalls].returned
        /\ sess["I"] # <<>> /\ sess["R"] # <<>>
        /\ Content(sess["I"][1]) = Content(sess["R"][1])
        /\ Content(sess["I"][2]) = Content(sess["R"][2])

C1_Witness ==
    /\ HonestSetup /\ HonestUpTo(NCalls)
    /\ last.op = "ReadMessage" /\ last.who = "R" /\ last.returned

\* C2: Tamper detection.  At every step of an exchange so far honest, when
\* one byte of the message WriteMessage produced is changed before delivery,
\* at any position, the peer's ReadMessage of that step fails with
\* AuthenticationFailure.
C2_TamperDetection ==
    (/\ last.op = "ReadMessage"
     /\ last.changed # 0
     /\ SamePrologue
     /\ HonestUpTo(Len(log) - 1)
     /\ Len(log) <= NCalls
     /\ log[Len(log)].who = ExpectedWho(Len(log)))
        => AuthenticationFailure(last.err)

\* A byte of the encrypted static key of step 3 was changed.
C2_Witness ==
    /\ last.op = "ReadMessage" /\ last.changed = 1 /\ Len(log) = NCalls
    /\ HonestSetup /\ HonestUpTo(NCalls - 1)
    /\ last.err = PanicBadMAC

\* C3: Payload round-trip.  At every step of an honest exchange, when the
\* peer calls ReadMessage on exactly the bytes WriteMessage(p) appended,
\* ReadMessage succeeds and appends exactly p to the caller's payload buffer,
\* whose previous content stays as a prefix.
C3_PayloadRoundTrip ==
    (last.op = "ReadMessage" /\ HonestSetup /\ HonestUpTo(Len(log))) =>
        /\ last.err = NoErr
        /\ last.kept
        /\ last.added = last.payload
        /\ last.addedLen = Len(last.payload)

C3_Witness ==
    /\ last.op = "ReadMessage" /\ HonestSetup /\ HonestUpTo(Len(log))
    /\ Len(log) = 4
    /\ last.payload # <<>> /\ last.bufBefore # <<>>
    /\ last.added = last.payload

IsSuffix(a, b) == Len(a) <= Len(b) /\ SubSeq(b, Len(b) - Len(a) + 1, Len(b)) = a

\* C5: Every successful WriteMessage or ReadMessage leaves remainingSteps
\* as it was with exactly its first step removed; remainingSteps is always
\* a suffix of the pattern's message steps, and no call makes it grow.
C5_OneStepPerCall ==
    /\ (LastIsCall /\ last.err = NoErr) =>
          /\ last.pre.messagePattern # <<>>
          /\ hs[last.who].messagePattern = Tail(last.pre.messagePattern)
    /\ LastIsCall => Len(hs[last.who].messagePattern) <= Len(last.pre.messagePattern)
    /\ \A p \in Peers :
          pc[p] = "ready" =>
              IsSuffix(hs[p].messagePattern, patterns[cfg[p].handshakePattern].messagePattern)

C5_Witness ==
    /\ last.op = "ReadMessage" /\ last.err = NoErr
    /\ Len(last.pre.messagePattern) = 2 /\ Len(hs[last.who].messagePattern) = 1

\* C6: A call returns the two session states exactly when it succeeded with
\* one step remaining; it then leaves remainingSteps empty, a successful call
\* with more steps remaining returns none, and a HandshakeState returns
\* session states at most once.
C6_SplitOnLastStep ==
    /\ LastIsCall =>
          /\ last.returned <=> (last.err = NoErr /\ Len(last.pre.messagePattern) = 1)
          /\ last.returned => hs[last.who].messagePattern = <<>>
          /\ last.returned <=> (sess[last.who] # <<>> /\ Len(last.pre.messagePattern) # 0)
    /\ \A p \in Peers :
          Cardinality({k \in 1 .. Len(log) : log[k].who = p /\ log[k].returned}) <= 1

C6_Witness ==
    /\ last.op = "WriteMessage" /\ last.returned /\ Len(last.pre.messagePattern) = 1
    /\ hs[last.who].messagePattern = <<>>

\* C7: Missing key.  An initiator initialised for "XX" without a static
\* key pair and driven through steps 1 and 2 fails in the step-3
\* WriteMessage, at the `s` token, instead of using the empty slot's value.
C7_MissingKey ==
    (/\ last.op = "WriteMessage" /\ last.who = "I"
     /\ SamePrologue /\ cfg["I"].s = Nil
     /\ HonestUpTo(Len(log)) /\ Len(log) = NCalls - 1
     /\ last.pre.s = Empty
     /\ Head(last.pre.messagePattern[1].tokens) = "s")
        => last.err # NoErr

\* The slot Initialize fills from a *keyPair argument.
SlotOf(k) == IF k = Nil THEN Empty ELSE k[1]

\* C8: Initialize fails exactly when the pattern name is not registered,
\* and then with UnknownHandshakePattern; for a registered pattern, either
\* role, any prologue and every combination of key pairs given or not, it
\* returns a state whose remainingSteps are the pattern's steps, whose role
\* is the one given and whose slots hold the key pairs given, the others
\* staying absent.
C8_InitializeFailsOnlyOnUnknown ==
    /\ \A p \in Peers :
          pc[p] # "new" =>
              /\ pc[p] = "failed" <=> cfg[p].handshakePattern \notin DOMAIN patterns
              /\ pc[p] = "ready" =>
                    /\ hs[p].messagePattern =
                           patterns[cfg[p].handshakePattern].messagePattern
                    /\ hs[p].initiator = cfg[p].initiator
                    /\ hs[p].s = SlotOf(cfg[p].s) /\ hs[p].e = SlotOf(cfg[p].e)
                    /\ hs[p].rs = SlotOf(cfg[p].rs) /\ hs[p].re = SlotOf(cfg[p].re)
    /\ last.op = "Initialize" =>
          /\ last.err # NoErr <=> pc[last.who] = "failed"
          /\ last.err # NoErr => UnknownHandshakePattern(last.err)

C8_Witness ==
    /\ pc["R"] = "ready" /\ ~cfg["R"].initiator
    /\ cfg["R"].s = Nil /\ hs["R"].s = Empty /\ cfg["R"].re # Nil /\ hs["R"].re # Empty
    /\ pc["I"] = "failed" /\ cfg["I"].handshakePattern = "ZZ"

\* A duplex object still finds in its buffers what it wrote there last.
Intact(s) == storage[s.buf] = LastOp(s)

\* C9: No aliasing after split.  The two session states a final call
\* returned share no state with each other or with the HandshakeState they
\* came from: the three duplex objects have buffers of their own, and none
\* finds its buffers changed by an operation on another.
C9_NoAliasing ==
    \A p \in Peers :
        sess[p] # <<>> =>
            /\ sess[p][1].buf # sess[p][2].buf
            /\ sess[p][1].buf # hs[p].strobeState.buf
            /\ sess[p][2].buf # hs[p].strobeState.buf
            /\ Intact(sess[p][1]) /\ Intact(sess[p][2]) /\ Intact(hs[p].strobeState)

\* C10: Split labelling is role-independent.  Whichever peer made the
\* final call, and whether it was a WriteMessage or a ReadMessage, the first
\* session state returned is the transcript at completion with "initiator"
\* absorbed and then ratcheted, the second the same transcript with
\* "responder" absorbed and then ratcheted, and the two differ.
C10_SplitLabels ==
    \A p \in Peers :
        sess[p] # <<>> =>
            /\ Content(sess[p][1]) =
                   Content(RATCHET(AD(hs[p].strobeState, TRUE, InitiatorLabel)))
            /\ Content(sess[p][2]) =
                   Content(RATCHET(AD(hs[p].strobeState, TRUE, ResponderLabel)))
            /\ Content(sess[p][1]) # Content(sess[p][2])

\* The responder completed by a WriteMessage, out of turn.
C10_Witness ==
    /\ last.op = "WriteMessage" /\ last.who = "R" /\ last.returned
    /\ sess["R"] # <<>> /\ ~hs["R"].initiator

\* What a token contributes to the message, in bytes.
TokenLen(token) ==
    IF token = "e" THEN dhLen ELSE IF token = "s" THEN dhLen + MacLen ELSE 0

RECURSIVE StepLen(_)
StepLen(tokens) ==
    IF tokens = <<>> THEN 0 ELSE TokenLen(Head(tokens)) + StepLen(Tail(tokens))

\* C11: Message length formula.  Every successful WriteMessage, whatever
\* the step and the payload, appends to the outbound buffer as many bytes as
\* its step's tokens contribute (dhLen for e, dhLen + 16 for s, none for a
\* DH token) plus len(payload) + 16, and keeps the buffer's prior content as
\* a prefix.
C11_MessageLength ==
    (last.op = "WriteMessage" /\ last.err = NoErr) =>
        /\ last.addedLen =
               StepLen(last.pre.messagePattern[1].tokens) + Len(last.payload) + 16
        /\ last.kept

\* "XX" step 2 with an empty payload, after a buffer that was not empty:
\* dhLen + (dhLen + 16) + 16 bytes.
C11_Witness ==
    /\ last.op = "WriteMessage" /\ last.err = NoErr /\ last.who = "R"
    /\ HonestSetup /\ HonestUpTo(3) /\ Len(log) = 3
    /\ last.payload = <<>> /\ last.bufBefore # <<>>
    /\ last.pre.messagePattern[1].tokens = <<"e", "ee", "s", "es">>
    /\ last.addedLen = dhLen + (dhLen + 16) + 16

\* Both pre-messages of the pattern peer p was initialised for list a static
\* key.
BothPreShared(p) ==
    /\ cfg[p].handshakePattern \in DOMAIN PreShared
    /\ ContainsS(PreShared[cfg[p].handshakePattern].initiatorPreMessagePattern)
    /\ ContainsS(PreShared[cfg[p].handshakePattern].responderPreMessagePattern)

\* Peer p gave its static key pair and the other's static public key.
GaveStatics(p) ==
    /\ cfg[p].s = Ptr(StaticOf(p))
    /\ cfg[p].rs = Ptr(PublicOf(StaticOf(Peer(p))))

\* C12: Pre-message order invariance.  For a pattern whose two pre-messages
\* both list a static key, Initialize absorbs the initiator's static public
\* key and then the responder's, whichever role is local: the transcript ends
\* with these two, in this order, and an initiator and a responder given
\* matching keys and the same prologue hold the same transcript.
C12_PreMessageOrder ==
    /\ \A p \in Peers :
          (pc[p] = "ready" /\ BothPreShared(p) /\ GaveStatics(p)) =>
              hs[p].strobeState.hist =
                  AD(AD(AD(SetMacLen(InitStrobe("DISCOv0.1.0_" \o cfg[p].handshakePattern,
                                                HsAddr(p)), MacLen),
                           FALSE, cfg[p].prologue),
                        FALSE, StaticOf("I").publicKey),
                     FALSE, StaticOf("R").publicKey).hist
    /\ (/\ \A p \in Peers : pc[p] = "ready" /\ BothPreShared(p) /\ GaveStatics(p)
        /\ cfg["I"].handshakePattern = cfg["R"].handshakePattern
        /\ cfg["I"].prologue = cfg["R"].prologue)
           => Content(hs["I"].strobeState) = Content(hs["R"].strobeState)

C12_Witness ==
    /\ \A p \in Peers : pc[p] = "ready" /\ BothPreShared(p) /\ GaveStatics(p)
    /\ hs["I"].initiator /\ ~hs["R"].initiator
    /\ cfg["I"].prologue = cfg["R"].prologue
    /\ Len(hs["R"].strobeState.hist) = 4
    /\ Content(hs["I"].strobeState) = Content(hs["R"].strobeState)

\* C13: A WriteMessage or ReadMessage that fails, with a token error or an
\* authentication error (bad s ciphertext or bad payload ciphertext) as
\* with any other, leaves remainingSteps exactly as it was and returns no
\* session state, while what the call did to the transcript before it failed
\* is kept: the transcript still starts with what it held, and after an
\* authentication error it holds more.
C13_FailureKeepsSteps ==
    (LastIsCall /\ last.err # NoErr) =>
        /\ hs[last.who].messagePattern = last.pre.messagePattern
        /\ ~last.returned
        /\ IsPrefix(last.pre.strobeState.hist, hs[last.who].strobeState.hist)
        /\ AuthenticationFailure(last.err) =>
               Len(hs[last.who].strobeState.hist) > Len(last.pre.strobeState.hist)

\* The payload tag of step 2 was changed: the initiator's ReadMessage fails
\* after e, ee, s and es were processed, and keeps the two remote keys.
C13_Witness ==
    /\ last.op = "ReadMessage" /\ last.who = "I" /\ last.err = PanicInvalidMAC
    /\ HonestSetup /\ HonestUpTo(3) /\ Len(log) = 4
    /\ Len(hs["I"].messagePattern) = 2
    /\ hs["I"].re # last.pre.re /\ hs["I"].rs # last.pre.rs
    /\ Len(hs["I"].strobeState.hist) = Len(last.pre.strobeState.hist) + 5

\* The failure a runtime panic on a slice expression stands for.
MalformedMessage(err) == err = PanicSliceBounds

\* C14: ReadMessage given a message shorter than the tokens of the current
\* step require (fewer than dhLen bytes left at an e token, fewer than
\* dhLen + 16 at an s token) fails with MalformedMessage and does not consume
\* the step.
C14_ShortMessage ==
    (/\ last.op = "ReadMessage"
     /\ last.pre.messagePattern # <<>>
     /\ last.len < StepLen(last.pre.messagePattern[1].tokens))
        => /\ MalformedMessage(last.err)
           /\ hs[last.who].messagePattern = last.pre.messagePattern

\* Each side holds its two key pairs and the other's two public keys.
KeysKnown ==
    \A p \in Peers :
        /\ pc[p] = "ready"
        /\ hs[p].s = StaticOf(p) /\ hs[p].e = EphemeralOf(p)
        /\ hs[p].rs = PublicOf(StaticOf(Peer(p)))
        /\ hs[p].re = PublicOf(EphemeralOf(Peer(p)))

\* The secret each DH token stands for: the first letter names the
\* initiator's key, the second the responder's.
SecretOf(pattern) ==
    dh(IF pattern \in {"ee", "es"} THEN EphemeralOf("I") ELSE StaticOf("I"),
       IF pattern \in {"ee", "se"} THEN EphemeralOf("R").publicKey
       ELSE StaticOf("R").publicKey)

\* C15: Role-dependent DH selection agrees between peers.  For each of ee,
\* es, se and ss, when each side's remote slots hold the other's public keys,
\* the secret the writing side mixes and the one the reading side mixes are
\* equal, whichever of the two is the initiator: es is DH(initiator's
\* ephemeral, responder's static) and se is DH(initiator's static,
\* responder's ephemeral) on both sides.
C15_DHAgreement ==
    (last.op \in DHTokens /\ KeysKnown) =>
        /\ \A p \in Peers :
              /\ LastOp(hs[p].strobeState).op = "KEY"
              /\ LastOp(hs[p].strobeState).key = SecretOf(last.op)
        /\ Content(hs["I"].strobeState) = Content(hs["R"].strobeState)

\* The responder ran the WriteMessage turn of "es" and the initiator the
\* ReadMessage turn.
C15_Witness ==
    /\ last.op = "es" /\ last.who = "R" /\ KeysKnown
    /\ LastOp(hs["R"].strobeState).key = {StaticOf("R").publicKey, EphemeralOf("I").publicKey}
    /\ LastOp(hs["I"].strobeState).key = {StaticOf("R").publicKey, EphemeralOf("I").publicKey}

\* The duplex operation of each token.
OpOf(token) == IF token = "e" THEN "CLR" ELSE IF token = "s" THEN "AEAD" ELSE "KEY"

\* The operations a step's tokens and the payload stand for, in order.
OpsOf(tokens) ==
    [i \in 1 .. Len(tokens) + 1 |-> IF i <= Len(tokens) THEN OpOf(tokens[i]) ELSE "AEAD"]

\* What the last call added to the transcript of its HandshakeState.
NewItems ==
    SubSeq(hs[last.who].strobeState.hist, Len(last.pre.strobeState.hist) + 1,
           Len(hs[last.who].strobeState.hist))

\* C16: Token ordering.  A successful WriteMessage or ReadMessage applies
\* to the transcript one operation per token, in the order of the step's
\* token list, and the payload's encryption or decryption after all of them.
\* In step 2 of an honest "XX" exchange, on the writing and on the reading
\* side: the ephemeral key in clear, ee mixed, the static key sealed, es
\* mixed, the payload sealed.
C16_TokenOrder ==
    (LastIsCall /\ last.err = NoErr) =>
        /\ IsPrefix(last.pre.strobeState.hist, hs[last.who].strobeState.hist)
        /\ [i \in 1 .. Len(NewItems) |-> NewItems[i].op] =
               OpsOf(last.pre.messagePattern[1].tokens)
        /\ (HonestSetup /\ HonestUpTo(Len(log)) /\ Len(log) \in {3, 4}) =>
               NewItems = <<Item("CLR", EphemeralOf("R").publicKey, <<>>, {}),
                            Item("KEY", <<>>, <<>>, SecretOf("ee")),
                            Item("AEAD", StaticOf("R").publicKey, <<>>, {}),
                            Item("KEY", <<>>, <<>>, SecretOf("es")),
                            Item("AEAD", last.payload, <<>>, {})>>

\* The initiator read step 2.
C16_Witness ==
    /\ last.op = "ReadMessage" /\ last.who = "I" /\ last.err = NoErr
    /\ HonestSetup /\ HonestUpTo(4) /\ Len(log) = 4
    /\ Len(NewItems) = 5
    /\ NewItems[3].op = "AEAD" /\ NewItems[2].key = SecretOf("ee")
    /\ NewItems[4].key = SecretOf("es")

\* Every call made so far returned normally.
AllSucceeded == \A k \in 1 .. Len(log) : log[k].err = NoErr

\* C17: Lock-step transcripts.  In an honest "XX" exchange with the same
\* prologue on both sides, after Initialize and after every message one side
\* wrote and the other successfully read, the two HandshakeStates hold equal
\* transcripts and equal remainingSteps.
C17_LockStep ==
    (HonestSetup /\ HonestUpTo(Len(log)) /\ Len(log) % 2 = 0 /\ AllSucceeded) =>
        /\ Content(hs["I"].strobeState) = Content(hs["R"].strobeState)
        /\ hs["I"].messagePattern = hs["R"].messagePattern
        /\ Len(hs["I"].messagePattern) = Len(Steps) - Len(log) \div 2

\* After step 2 was written and read.
C17_Witness ==
    /\ HonestSetup /\ HonestUpTo(4) /\ Len(log) = 4 /\ AllSucceeded
    /\ last.op = "ReadMessage" /\ last.who = "I"
    /\ Len(hs["R"].messagePattern) = 1
    /\ hs["I"].strobeState.hist = hs["R"].strobeState.hist

\* The last call was made out of turn: a WriteMessage by the side the
\* pattern's direction marker does not name, or a ReadMessage by the side it
\* names.
OutOfTurn ==
    /\ LastIsCall
    /\ last.pre.messagePattern # <<>>
    /\ (last.op = "WriteMessage") # (Writer(last.pre.messagePattern[1]) = last.who)

\* C18: Out-of-turn calls are not rejected on direction grounds.  A call
\* made out of turn fails only as a call in turn may (a tag that does not
\* verify, a message too short), and a WriteMessage out of turn never fails;
\* when it does not fail, the call has executed the step's tokens and
\* consumed the step like a call in turn.
C18_OutOfTurnRuns ==
    OutOfTurn =>
        /\ last.err \in {NoErr, PanicBadMAC, PanicInvalidMAC, PanicSliceBounds}
        /\ last.op = "WriteMessage" => last.err = NoErr
        /\ last.err = NoErr =>
              /\ hs[last.who].messagePattern = Tail(last.pre.messagePattern)
              /\ [i \in 1 .. Len(NewItems) |-> NewItems[i].op] =
                     OpsOf(last.pre.messagePattern[1].tokens)

\* The responder wrote step 1, and the initiator read what it wrote as step
\* 1, its own write step.
C18_Witness ==
    /\ Len(log) = 2
    /\ log[1].op = "WriteMessage" /\ log[1].who = "R" /\ log[1].err = NoErr
    /\ last.op = "ReadMessage" /\ last.who = "I" /\ last.err = NoErr /\ OutOfTurn
    /\ last.pre.messagePattern = Steps
    /\ Len(hs["I"].messagePattern) = 2 /\ Len(hs["R"].messagePattern) = 2
    /\ hs["I"].re.publicKey = hs["R"].e.publicKey

\* Whether a step's token list holds the token.
HasToken(tokens, token) == \E i \in 1 .. Len(tokens) : tokens[i] = token

\* C19: Peer-key agreement.  In an honest "XX" exchange a successful
\* ReadMessage of a step with an e token leaves in the remote-ephemeral slot
\* the public key the peer generated when it wrote the step, and one of a
\* step with an s token leaves in the remote-static slot the peer's static
\* public key; when both sides are Complete, each side's remote static and
\* remote ephemeral public keys are the peer's local ones.
C19_PeerKeys ==
    /\ (last.op = "ReadMessage" /\ last.err = NoErr
           /\ HonestSetup /\ HonestUpTo(Len(log))) =>
          /\ HasToken(last.pre.messagePattern[1].tokens, "e") =>
                /\ hs[last.who].re.publicKey = hs[Peer(last.who)].e.publicKey
                /\ hs[last.who].re.publicKey = EphemeralOf(Peer(last.who)).publicKey
          /\ HasToken(last.pre.messagePattern[1].tokens, "s") =>
                /\ hs[last.who].rs.publicKey = hs[Peer(last.who)].s.publicKey
                /\ hs[last.who].rs.publicKey = StaticOf(Peer(last.who)).publicKey
    /\ (HonestSetup /\ HonestUpTo(NCalls)) =>
          \A p \in Peers :
              /\ hs[p].messagePattern = <<>>
              /\ hs[p].rs.publicKey = hs[Peer(p)].s.publicKey
              /\ hs[p].re.publicKey = hs[Peer(p)].e.publicKey

\* Both sides are Complete, the responder having just read the initiator's
\* static key.
C19_Witness ==
    /\ HonestSetup /\ HonestUpTo(NCalls) /\ Len(log) = NCalls
    /\ last.op = "ReadMessage" /\ last.who = "R" /\ last.err = NoErr
    /\ last.pre.rs = Empty /\ hs["R"].rs.publicKey = StaticOf("I").publicKey
    /\ hs["I"].rs.publicKey = StaticOf("R").publicKey
    /\ hs["I"].re.publicKey = EphemeralOf("R").publicKey
    /\ hs["R"].re.publicKey = EphemeralOf("I").publicKey

\* C20: Key availability in an honest run.  When both sides are initialised
\* for "XX" with their static key pair and no other, and the three messages
\* are delivered unchanged and in order, every token either side executes
\* finds a key in every slot it reads, and no call of the exchange fails.
C20_KeysAvailable ==
    (LastIsCall /\ HonestSetup /\ HonestUpTo(Len(log))) =>
        /\ last.found
        /\ last.err = NoErr
        /\ AllSucceeded

\* The last of the six calls: the responder executed "s, se" with its
\* ephemeral pair and the initiator's ephemeral key in place.
C20_Witness ==
    /\ HonestSetup /\ HonestUpTo(NCalls) /\ Len(log) = NCalls
    /\ \A p \in Peers : cfg[p].e = Nil /\ cfg[p].rs = Nil /\ cfg[p].re = Nil
    /\ last.op = "ReadMessage" /\ last.who = "R" /\ last.found
    /\ Present(last.pre.e) /\ Known(last.pre.re) /\ ~Known(last.pre.rs)

====
